---- MODULE Spec2Model ----
(***************************************************************************)
(* Variant resolution and property merging of use-styled.                  *)
(*                                                                         *)
(* The repository holds several generations of the library side by side:   *)
(*   "current"  src/src/useStyled.tsx:162-267 with helpers/utils.ts        *)
(*   "earlier"  src/src/useStyled.tsx:19-126  with helpers/utils.ts        *)
(*   "index"    src/index.tsx                                              *)
(*   "boolean"  src/unnamed/part_000 (boolean-variant generation)          *)
(* Each generation is modelled from its own source; the variable impl      *)
(* says which one is installed.                                            *)
(*                                                                         *)
(* JavaScript values are records [t, v]: t is the runtime type and v the   *)
(* content as a sequence of strings, so that values of different runtime   *)
(* types can be compared (===) without a type error:                       *)
(*   string   v = its space-separated tokens ("" is <<>>)                  *)
(*   boolean  v = <<"true">> or <<"false">>                                *)
(*   object   v = <<key1, value1, key2, value2, ...>> (a style object)     *)
(*   ref      v = <<identity>>                                             *)
(* A property bag (JS object) is a sequence of [k, val] entries in         *)
(* insertion order, which is the order for..in and Object.keys follow.     *)
(***************************************************************************)
EXTENDS Integers, Sequences, FiniteSets, TLC

VARIABLES impl, config, call, rendered, heap

vars == <<impl, config, call, rendered, heap>>

-----------------------------------------------------------------------------
(* JavaScript values *)

Undefined == [t |-> "undef", v |-> <<>>]

Null == [t |-> "null", v |-> <<>>]

Str(s) == [t |-> "str", v |-> <<s>>]

Cls(tokens) == [t |-> "str", v |-> tokens]

Bool(b) == [t |-> "bool", v |-> IF b THEN <<"true">> ELSE <<"false">>]

Sty(flat) == [t |-> "obj", v |-> flat]

Ref(r) == [t |-> "ref", v |-> <<r>>]

\* Boolean(value): JS truthiness
Truthy(x) ==
    CASE x.t = "undef" -> FALSE
      [] x.t = "null" -> FALSE
      [] x.t = "bool" -> x.v = <<"true">>
      [] x.t = "str" -> x.v # <<>>
      [] OTHER -> TRUE

\* an object that refers to itself, as a mounted DOM node or a React element
\* does
Circular == [t |-> "circ", v |-> <<"self">>]

\* the render is abandoned with an error
Thrown(props) == [op |-> "throw", incoming |-> props]

\* String(value): the lookup key a selection is converted to
String(x) ==
    CASE x.t = "undef" -> <<"undefined">>
      [] x.t = "null" -> <<"null">>
      [] x.t \in {"obj", "ref", "circ"} -> <<"[object", "Object]">>
      [] OTHER -> x.v

-----------------------------------------------------------------------------
(* JavaScript objects as insertion-ordered property bags *)

Has(o, k) == \E i \in 1..Len(o) : o[i].k = k

Idx(o, k) == CHOOSE i \in 1..Len(o) : o[i].k = k

Get(o, k) == IF Has(o, k) THEN o[Idx(o, k)].val ELSE Undefined

Set(o, k, x) ==
    IF Has(o, k) THEN [o EXCEPT ![Idx(o, k)].val = x]
    ELSE Append(o, [k |-> k, val |-> x])

Keys(o) == [i \in 1..Len(o) |-> o[i].k]

KeySet(o) == {o[i].k : i \in 1..Len(o)}

RECURSIVE Assign(_, _)
Assign(o, p) ==
    IF p = <<>> THEN o
    ELSE Assign(Set(o, Head(p).k, Head(p).val), Tail(p))

Without(o, ks) == SelectSeq(o, LAMBDA e : e.k \notin ks)

\* an optional object: <<>> is undefined, <<o>> is the object o
Absent == <<>>

Some(o) == <<o>>

OrEmpty(opt) == IF opt = Absent THEN <<>> ELSE opt[1]

-----------------------------------------------------------------------------
(* style objects: v = <<key1, value1, key2, value2, ...>> *)

StyleHas(s, k) == \E i \in 1..Len(s) : i % 2 = 1 /\ s[i] = k

StyleIdx(s, k) == CHOOSE i \in 1..Len(s) : i % 2 = 1 /\ s[i] = k

StyleKeys(s) == {s[i] : i \in {j \in 1..Len(s) : j % 2 = 1}}

StyleGet(s, k) == s[StyleIdx(s, k) + 1]

StyleSet(s, k, x) ==
    IF StyleHas(s, k) THEN [s EXCEPT ![StyleIdx(s, k) + 1] = x]
    ELSE s \o <<k, x>>

RECURSIVE StyleAssign(_, _)
StyleAssign(s, p) ==
    IF Len(p) < 2 THEN s
    ELSE StyleAssign(StyleSet(s, p[1], p[2]), SubSeq(p, 3, Len(p)))

-----------------------------------------------------------------------------
(* class names: clsx and tailwind-merge *)

ClassGroup(tok) ==
    CASE tok \in {"p-2", "p-4"} -> "p"
      [] tok \in {"px-4"} -> "px"
      [] OTHER -> "none"

ConflictingClassGroups(g) == IF g = "p" THEN {"p", "px"} ELSE {g}

\* twMerge scans from the last class to the first and drops a class whose
\* group was claimed by a later class; unknown classes are always kept
RECURSIVE TwMergeFrom(_, _, _)
TwMergeFrom(tokens, i, claimed) ==
    IF i = 0 THEN <<>>
    ELSE LET g == ClassGroup(tokens[i]) IN
         IF g # "none" /\ g \in claimed
         THEN TwMergeFrom(tokens, i - 1, claimed)
         ELSE TwMergeFrom(tokens, i - 1,
                  IF g = "none" THEN claimed
                  ELSE claimed \cup ConflictingClassGroups(g))
              \o <<tokens[i]>>

twMerge(tokens) == TwMergeFrom(tokens, Len(tokens), {})

\* clsx joins the truthy string inputs and skips everything falsy
RECURSIVE clsx(_)
clsx(inputs) ==
    IF inputs = <<>> THEN <<>>
    ELSE (IF Head(inputs).t = "str" THEN Head(inputs).v ELSE <<>>)
         \o clsx(Tail(inputs))

-----------------------------------------------------------------------------
(* the variants configuration: an ordered object of categories, each an    *)
(* ordered object of options: <<[k |-> category, opts |-> <<[k |-> option,  *)
(* props |-> propertySet], ...>>], ...>>                                    *)

HasEntry(m, k) == \E i \in 1..Len(m) : m[i].k = k

Entry(m, k) == m[CHOOSE i \in 1..Len(m) : m[i].k = k]

\* variantDef[lookupKey]: the option whose key is the lookup string
HasOption(opts, lookup) == \E i \in 1..Len(opts) : <<opts[i].k>> = lookup

Option(opts, lookup) ==
    opts[CHOOSE i \in 1..Len(opts) : <<opts[i].k>> = lookup].props

-----------------------------------------------------------------------------
(* helpers/utils.ts *)

\* mutant: only the last valid style object is kept
mergeStyles_lastOnly(styles) ==
    LET validStyles == SelectSeq(styles, Truthy)
    IN IF Len(validStyles) = 0 THEN Undefined
       ELSE validStyles[Len(validStyles)]

mergeStyles(styles) ==
    LET validStyles == SelectSeq(styles, Truthy)
        merged == LET RECURSIVE Go(_, _)
                      Go(acc, rest) ==
                          IF rest = <<>> THEN acc
                          ELSE Go(StyleAssign(acc, Head(rest).v), Tail(rest))
                  IN Go(<<>>, validStyles)
    IN IF Len(validStyles) = 0 THEN Undefined
       ELSE IF Len(validStyles) = 1 THEN validStyles[1]
       ELSE IF Len(merged) > 0 THEN Sty(merged) ELSE Undefined

cn(inputs) ==
    LET result == twMerge(clsx(inputs))
    IN IF Len(result) > 0 THEN Cls(result) ELSE Undefined

\* mutant: the values are compared after conversion to strings
checkCompoundVariantConditions_loose(conditions, activeVariants) ==
    \A i \in 1..Len(conditions) :
        String(conditions[i].val) = String(Get(activeVariants, conditions[i].k))

\* mutant: a rule needs at least one condition to match
checkCompoundVariantConditions_nonEmpty(conditions, activeVariants) ==
    /\ conditions # <<>>
    /\ \A i \in 1..Len(conditions) :
           conditions[i].val = Get(activeVariants, conditions[i].k)

checkCompoundVariantConditions(conditions, activeVariants) ==
    \A i \in 1..Len(conditions) :
        conditions[i].val = Get(activeVariants, conditions[i].k)

\* mutant: the option is looked up for string values only
resolveVariantStep_stringsOnly(configVariants, acc, variantKey, variantValue) ==
    IF variantValue.t = "str" /\ HasEntry(configVariants, variantKey)
    THEN LET opts == Entry(configVariants, variantKey).opts
             lookup == String(variantValue)
         IN IF HasOption(opts, lookup)
            THEN LET propsForVariant == Option(opts, lookup)
                     style == Get(propsForVariant, "style")
                     className == Get(propsForVariant, "className")
                     restProps == Without(propsForVariant,
                                          {"style", "className"})
                 IN [props |-> Assign(acc.props, restProps),
                     style |-> IF Truthy(style)
                               THEN mergeStyles(<<acc.style, style>>)
                               ELSE acc.style,
                     cls |-> IF Truthy(className)
                             THEN cn(<<acc.cls, className>>)
                             ELSE acc.cls]
            ELSE acc
    ELSE acc

\* one turn of the loop of resolveVariantProps; acc = [props, style, cls]
resolveVariantStep(configVariants, acc, variantKey, variantValue) ==
    IF variantValue # Undefined /\ HasEntry(configVariants, variantKey)
    THEN LET opts == Entry(configVariants, variantKey).opts
             lookup == String(variantValue)
         IN IF HasOption(opts, lookup)
            THEN LET propsForVariant == Option(opts, lookup)
                     style == Get(propsForVariant, "style")
                     className == Get(propsForVariant, "className")
                     restProps == Without(propsForVariant,
                                          {"style", "className"})
                 IN [props |-> Assign(acc.props, restProps),
                     style |-> IF Truthy(style)
                               THEN mergeStyles(<<acc.style, style>>)
                               ELSE acc.style,
                     cls |-> IF Truthy(className)
                             THEN cn(<<acc.cls, className>>)
                             ELSE acc.cls]
            ELSE acc
    ELSE acc

RECURSIVE resolveVariantLoop(_, _, _)
resolveVariantLoop(configVariants, acc, rest) ==
    IF rest = <<>> THEN acc
    ELSE resolveVariantLoop(configVariants,
             resolveVariantStep(configVariants, acc,
                                Head(rest).k, Head(rest).val),
             Tail(rest))

resolveVariantProps(configVariants, activeVariants) ==
    IF configVariants = Absent THEN <<>>
    ELSE LET acc == resolveVariantLoop(configVariants[1],
                        [props |-> <<>>, style |-> Undefined,
                         cls |-> Undefined],
                        activeVariants)
             withStyle == IF Truthy(acc.style)
                          THEN Set(acc.props, "style", acc.style)
                          ELSE acc.props
         IN IF Truthy(acc.cls) THEN Set(withStyle, "className", acc.cls)
            ELSE withStyle

\* mutant: the loop stops at the first matching rule
RECURSIVE resolveCompoundLoop_firstMatch(_, _, _)
resolveCompoundLoop_firstMatch(compoundProps, rules, activeVariants) ==
    IF rules = <<>> THEN compoundProps
    ELSE LET compoundItem == Head(rules)
             itemProps == compoundItem.props
             conditions == compoundItem.cond
         IN IF checkCompoundVariantConditions(conditions, activeVariants)
            THEN Assign(compoundProps, OrEmpty(itemProps))
            ELSE resolveCompoundLoop_firstMatch(compoundProps, Tail(rules),
                                                activeVariants)

\* a compound rule is [cond, props]: cond holds every key written on the
\* rule object except `props`, and props is the optional `props` sub-object
RECURSIVE resolveCompoundLoop(_, _, _)
resolveCompoundLoop(compoundProps, rules, activeVariants) ==
    IF rules = <<>> THEN compoundProps
    ELSE LET compoundItem == Head(rules)
             itemProps == compoundItem.props
             conditions == compoundItem.cond
         IN resolveCompoundLoop(
                IF checkCompoundVariantConditions(conditions, activeVariants)
                   /\ itemProps # Absent
                THEN Assign(compoundProps, itemProps[1])
                ELSE compoundProps,
                Tail(rules), activeVariants)

resolveCompoundVariantProps(compoundVariantsConfig, activeVariants) ==
    IF compoundVariantsConfig = Absent THEN <<>>
    ELSE resolveCompoundLoop(<<>>, compoundVariantsConfig[1], activeVariants)

\* mutant: className is assigned like any other prop, the last one winning
RECURSIVE mergeFinalCollect_classOverwritten(_, _)
mergeFinalCollect_classOverwritten(acc, source) ==
    IF source = <<>> THEN acc
    ELSE LET key == Head(source).k
             value == Head(source).val
         IN mergeFinalCollect_classOverwritten(
                IF key = "style"
                THEN [acc EXCEPT !.styles = Append(@, value)]
                ELSE IF key = "className"
                THEN [acc EXCEPT !.classes = <<value>>]
                ELSE IF key # "ref"
                THEN [acc EXCEPT !.props = Set(@, key, value)]
                ELSE acc,
                Tail(source))

\* collects, over the sources in order, the styles, the classes and the
\* other props; acc = [props, styles, classes]
RECURSIVE mergeFinalCollect(_, _)
mergeFinalCollect(acc, source) ==
    IF source = <<>> THEN acc
    ELSE LET key == Head(source).k
             value == Head(source).val
         IN mergeFinalCollect(
                IF key = "style"
                THEN [acc EXCEPT !.styles = Append(@, value)]
                ELSE IF key = "className"
                THEN [acc EXCEPT !.classes = Append(@, value)]
                ELSE IF key # "ref"
                THEN [acc EXCEPT !.props = Set(@, key, value)]
                ELSE acc,
                Tail(source))

\* mutant: style and className are written whether or not anything was
\* merged
mergeSources_alwaysWritten(sources, ref) ==
    LET collected ==
            LET RECURSIVE Go(_, _)
                Go(acc, i) ==
                    IF i > Len(sources) THEN acc
                    ELSE Go(mergeFinalCollect(acc, sources[i]), i + 1)
            IN Go([props |-> <<>>, styles |-> <<>>, classes |-> <<>>], 1)
        withStyle == Set(collected.props, "style",
                         mergeStyles(collected.styles))
        withClass == Set(withStyle, "className", cn(collected.classes))
    IN IF Truthy(ref) THEN Set(withClass, "ref", ref) ELSE withClass

\* lines 131-160: the sources are merged in the order given
mergeSources(sources, ref) ==
    LET collected ==
            LET RECURSIVE Go(_, _)
                Go(acc, i) ==
                    IF i > Len(sources) THEN acc
                    ELSE Go(mergeFinalCollect(acc, sources[i]), i + 1)
            IN Go([props |-> <<>>, styles |-> <<>>, classes |-> <<>>], 1)
        mergedStyle == mergeStyles(collected.styles)
        mergedClassName == cn(collected.classes)
        withStyle == IF Truthy(mergedStyle)
                     THEN Set(collected.props, "style", mergedStyle)
                     ELSE collected.props
        withClass == IF Truthy(mergedClassName)
                     THEN Set(withStyle, "className", mergedClassName)
                     ELSE withStyle
    IN IF Truthy(ref) THEN Set(withClass, "ref", ref) ELSE withClass

\* mutant: the compound result is merged before the simple-variant result
mergeFinalProps_compoundFirst(base, variants, compounds, direct) ==
    mergeSources(<<OrEmpty(base), compounds, variants,
                   Without(direct, {"ref"})>>, Get(direct, "ref"))

\* mutant: the ref is not taken out of the direct props
mergeFinalProps_refMerged(base, variants, compounds, direct) ==
    mergeSources(<<OrEmpty(base), variants, compounds, direct>>, Undefined)

mergeFinalProps(base, variants, compounds, direct) ==
    LET ref == Get(direct, "ref")
        otherDirectProps == Without(direct, {"ref"})
        sources == <<OrEmpty(base), variants, compounds, otherDirectProps>>
    IN mergeSources(sources, ref)

-----------------------------------------------------------------------------
(* src/index.tsx *)

\* JSON.stringify(entry, null, 2) raises a TypeError on a circular structure
JSONstringifyThrows(details) ==
    \E i \in 1..Len(details) : details[i].val.t = "circ"

\* logEvent: with debug set the entry is serialised and printed, and nothing
\* around the call catches an error
logEventThrows(cfg, details) == cfg.debug /\ JSONstringifyThrows(details)

\* mutant: every merge appends a marker class
cn_index_appended(inputs) == Cls(clsx(inputs) \o <<"merged">>)

\* cn of index.tsx returns the merged string, also when it is empty
cn_index(inputs) == Cls(twMerge(clsx(inputs)))

\* mutant: className and style are assigned like any other prop
mergePropsEntry_assign(result, key, value) ==
    IF value = Undefined THEN result
    ELSE Set(result, key, value)

\* mutant: the class string is concatenated with whatever the result holds
mergePropsEntry_concat(result, key, value) ==
    IF value = Undefined THEN result
    ELSE IF key = "className" /\ value.t = "str"
    THEN Set(result, "className",
             Cls(String(Get(result, "className")) \o value.v))
    ELSE IF key = "style" /\ value.t = "obj"
    THEN Set(result, "style",
             Sty(StyleAssign(IF Get(result, "style").t = "obj"
                             THEN Get(result, "style").v ELSE <<>>,
                             value.v)))
    ELSE Set(result, key, value)

\* one entry of one contributor of mergeProps
mergePropsEntry(result, key, value) ==
    IF value = Undefined THEN result
    ELSE IF key = "className" /\ value.t = "str"
    THEN Set(result, "className", cn_index(<<Get(result, "className"), value>>))
    ELSE IF key = "style" /\ value.t = "obj"
    THEN Set(result, "style",
             Sty(StyleAssign(IF Get(result, "style").t = "obj"
                             THEN Get(result, "style").v ELSE <<>>,
                             value.v)))
    ELSE Set(result, key, value)

RECURSIVE mergePropsObject(_, _)
mergePropsObject(result, props) ==
    IF props = <<>> THEN result
    ELSE mergePropsObject(
             mergePropsEntry(result, Head(props).k, Head(props).val),
             Tail(props))

RECURSIVE mergePropsFrom(_, _)
mergePropsFrom(result, propsList) ==
    IF propsList = <<>> THEN result
    ELSE mergePropsFrom(
             IF Head(propsList) = Absent THEN result
             ELSE mergePropsObject(result, Head(propsList)[1]),
             Tail(propsList))

\* propsList is a sequence of optional objects
mergeProps(propsList) == mergePropsFrom(<<>>, propsList)

\* the rule object as written in the configuration: its flat keys, then
\* the key `props` when the rule has a props sub-object
compoundObject(rule) ==
    IF rule.props = Absent THEN rule.cond
    ELSE Append(rule.cond, [k |-> "props", val |-> Sty(Keys(rule.props[1]))])

\* mutant: every key written on the rule is a condition
compoundConditions_all(rule) == compoundObject(rule)

compoundConditions(rule) ==
    Without(compoundObject(rule), {"className", "style"})

compoundIsMatch(rule, currentProps) ==
    LET conditions == compoundConditions(rule)
    IN \A i \in 1..Len(conditions) :
           ~(Get(currentProps, conditions[i].k) # conditions[i].val)

compoundSpecificProps(rule) ==
    Without(compoundObject(rule), KeySet(compoundConditions(rule)))

RECURSIVE applyCompoundLoop(_, _, _)
applyCompoundLoop(compoundVariantProps, rules, currentProps) ==
    IF rules = <<>> THEN compoundVariantProps
    ELSE applyCompoundLoop(
             IF compoundIsMatch(Head(rules), currentProps)
             THEN mergeProps(<<Some(compoundVariantProps),
                               Some(compoundSpecificProps(Head(rules)))>>)
             ELSE compoundVariantProps,
             Tail(rules), currentProps)

applyCompoundVariants(cfg, currentProps) ==
    IF cfg.compoundVariants = Absent \/ Len(cfg.compoundVariants[1]) = 0
    THEN <<>>
    ELSE applyCompoundLoop(<<>>, cfg.compoundVariants[1], currentProps)

\* one turn of the loop of applyBaseVariants over variantKeys
applyBaseStep(cfg, variantProps, category, currentProps) ==
    LET variantDef == category.opts
        fromProps == Get(currentProps, category.k)
        propValue == IF fromProps = Undefined /\ cfg.defaultVariants # Absent
                     THEN Get(cfg.defaultVariants[1], category.k)
                     ELSE fromProps
        lookupKey == String(propValue)
    IN IF propValue = Undefined THEN variantProps
       ELSE IF HasOption(variantDef, lookupKey)
       THEN mergeProps(<<Some(variantProps),
                         Some(Option(variantDef, lookupKey))>>)
       ELSE variantProps

RECURSIVE applyBaseLoop(_, _, _, _)
applyBaseLoop(cfg, variantProps, categories, currentProps) ==
    IF categories = <<>> THEN variantProps
    ELSE applyBaseLoop(cfg,
             applyBaseStep(cfg, variantProps, Head(categories), currentProps),
             Tail(categories), currentProps)

applyBaseVariants(cfg, currentProps) ==
    IF cfg.variants = Absent THEN <<>>
    ELSE applyBaseLoop(cfg, <<>>, cfg.variants[1], currentProps)

\* mutant: without variants the defaults name the variant keys
variantKeysOf_defaults(cfg) ==
    IF cfg.variants = Absent
    THEN KeySet(OrEmpty(cfg.defaultVariants))
    ELSE {cfg.variants[1][i].k : i \in 1..Len(cfg.variants[1])}

variantKeysOf(cfg) ==
    IF cfg.variants = Absent THEN {}
    ELSE {cfg.variants[1][i].k : i \in 1..Len(cfg.variants[1])}

\* separateProps: [variantProps, directProps]
separateProps(cfg, allProps) ==
    LET given == SelectSeq(allProps, LAMBDA e : e.val # Undefined)
    IN [variantProps |-> SelectSeq(given, LAMBDA e : e.k \in variantKeysOf(cfg)),
        directProps |-> SelectSeq(given, LAMBDA e : e.k \notin variantKeysOf(cfg))]

\* <Tag className={className} style={style} {...finalRestProps}>{children}</Tag>
jsxProps(mergedProps, children) ==
    Set(Assign(<<[k |-> "className", val |-> Get(mergedProps, "className")],
                 [k |-> "style", val |-> Get(mergedProps, "style")]>>,
               Without(mergedProps, {"className", "style"})),
        "children", children)

StyledComponent(cfg, props) ==
    LET children == Get(props, "children")
        restProps == Without(props, {"children"})
        separated == separateProps(cfg, restProps)
        activeVariantProps == Assign(OrEmpty(cfg.defaultVariants),
                                     separated.variantProps)
        baseVariantStyles == applyBaseVariants(cfg, activeVariantProps)
        compoundVariantStyles == applyCompoundVariants(cfg, activeVariantProps)
        mergedProps == mergeProps(<<Some(OrEmpty(cfg.base)),
                                    Some(baseVariantStyles),
                                    Some(compoundVariantStyles),
                                    Some(separated.directProps)>>)
    IN IF logEventThrows(cfg, SelectSeq(restProps,
                                        LAMBDA e : e.val # Undefined))
       THEN Thrown(props)
       ELSE
       [op |-> "render", incoming |-> props,
        active |-> activeVariantProps,
        direct |-> separated.directProps,
        variantRes |-> baseVariantStyles,
        compoundRes |-> compoundVariantStyles,
        merged |-> mergedProps,
        final |-> jsxProps(mergedProps, children)]

-----------------------------------------------------------------------------
(* src/src/useStyled.tsx *)

\* mutant: a prop selects a variant only when its value is truthy
RECURSIVE splitIncoming_truthy(_, _, _)
splitIncoming_truthy(cfg, acc, incomingProps) ==
    IF incomingProps = <<>> THEN acc
    ELSE LET key == Head(incomingProps).k
             propValue == Head(incomingProps).val
         IN splitIncoming_truthy(cfg,
                IF key \in variantKeysOf(cfg) /\ Truthy(propValue)
                THEN [acc EXCEPT !.active = Set(@, key, propValue)]
                ELSE [acc EXCEPT !.direct = Set(@, key, propValue)],
                Tail(incomingProps))

\* mutant: a key that has a default selects a variant as well
RECURSIVE splitIncoming_defaulted(_, _, _)
splitIncoming_defaulted(cfg, acc, incomingProps) ==
    IF incomingProps = <<>> THEN acc
    ELSE LET key == Head(incomingProps).k
             propValue == Head(incomingProps).val
         IN splitIncoming_defaulted(cfg,
                IF /\ \/ key \in variantKeysOf(cfg)
                      \/ Has(OrEmpty(cfg.defaultVariants), key)
                   /\ propValue # Undefined
                THEN [acc EXCEPT !.active = Set(@, key, propValue)]
                ELSE [acc EXCEPT !.direct = Set(@, key, propValue)],
                Tail(incomingProps))

\* the split loop over the incoming props; acc = [active, direct]
RECURSIVE splitIncoming(_, _, _)
splitIncoming(cfg, acc, incomingProps) ==
    IF incomingProps = <<>> THEN acc
    ELSE LET key == Head(incomingProps).k
             propValue == Head(incomingProps).val
         IN splitIncoming(cfg,
                IF key \in variantKeysOf(cfg) /\ propValue # Undefined
                THEN [acc EXCEPT !.active = Set(@, key, propValue)]
                ELSE [acc EXCEPT !.direct = Set(@, key, propValue)],
                Tail(incomingProps))

\* console.log(obj): taken to fail on an object it cannot inspect
consoleLogThrows(obj) == \E i \in 1..Len(obj) : obj[i].val.t = "circ"

\* logger.debug (src/src/logger.ts 18-30): console.log(obj) runs inside a
\* try, and the catch prints the keys of the object instead, inside a try of
\* its own; the value is what gets printed
loggerDebug(obj) == IF consoleLogThrows(obj) THEN "keys" ELSE "object"

\* an error leaves logger.debug only if neither the object nor the fallback
\* was printed
loggerDebugThrows(obj) == loggerDebug(obj) \notin {"object", "keys"}

resolveAndMerge(cfg, incomingProps, activeVariantProps, directProps) ==
    LET variantPropsResult ==
            resolveVariantProps(cfg.variants, activeVariantProps)
        compoundPropsResult ==
            resolveCompoundVariantProps(cfg.compoundVariants,
                                        activeVariantProps)
        finalMergedProps ==
            mergeFinalProps(cfg.base, variantPropsResult,
                            compoundPropsResult, directProps)
    IN IF cfg.debug /\ (\/ loggerDebugThrows(incomingProps)
                        \/ loggerDebugThrows(activeVariantProps)
                        \/ loggerDebugThrows(directProps)
                        \/ loggerDebugThrows(variantPropsResult)
                        \/ loggerDebugThrows(compoundPropsResult)
                        \/ loggerDebugThrows(finalMergedProps))
       THEN Thrown(incomingProps)
       ELSE
       [op |-> "render", incoming |-> incomingProps,
        active |-> activeVariantProps,
        direct |-> directProps,
        variantRes |-> variantPropsResult,
        compoundRes |-> compoundPropsResult,
        merged |-> finalMergedProps,
        final |-> finalMergedProps]

\* mutant: activeVariantProps is the defaultVariants object itself
activeVariantsObject_shared(cfg) ==
    [value |-> OrEmpty(cfg.defaultVariants),
     own |-> cfg.defaultVariants # Absent]

\* lines 185-187: activeVariantProps is a new object that receives a copy of
\* the defaults; own tells whether the object is one of the configuration
activeVariantsObject(cfg) ==
    [value |-> OrEmpty(cfg.defaultVariants), own |-> FALSE]

\* mutant: the active selection of the render is kept as the defaults of
\* the next one
configAfterSplit_kept(cfg, activeVariantProps) ==
    IF cfg.defaultVariants # Absent
    THEN [cfg EXCEPT !.defaultVariants = Some(activeVariantProps)]
    ELSE cfg

\* the configuration once the split loop has written activeVariantProps
\* (lines 201-210): the writes reach it only through an object of its own
configAfterSplit(cfg, activeVariantProps) ==
    IF activeVariantsObject(cfg).own
    THEN [cfg EXCEPT !.defaultVariants = Some(activeVariantProps)]
    ELSE cfg

\* lines 162-267: the active selection starts from the defaults and the
\* incoming variant props overwrite them
StyledComponentInternal(cfg, incomingProps) ==
    LET split == splitIncoming(cfg,
                     [active |-> activeVariantsObject(cfg).value,
                      direct |-> <<>>],
                     incomingProps)
    IN resolveAndMerge(cfg, incomingProps, split.active, split.direct)

\* the default-fill loop of lines 63-71
RECURSIVE applyDefaultVariants(_, _)
applyDefaultVariants(activeVariantProps, defaultVariants) ==
    IF defaultVariants = <<>> THEN activeVariantProps
    ELSE applyDefaultVariants(
             IF Get(activeVariantProps, Head(defaultVariants).k) = Undefined
             THEN Set(activeVariantProps, Head(defaultVariants).k,
                      Head(defaultVariants).val)
             ELSE activeVariantProps,
             Tail(defaultVariants))

\* lines 19-126: the incoming props are split first and the defaults fill
\* the categories still undefined
StyledComponentInternalEarlier(cfg, incomingProps) ==
    LET split == splitIncoming(cfg, [active |-> <<>>, direct |-> <<>>],
                               incomingProps)
        activeVariantProps ==
            applyDefaultVariants(split.active, OrEmpty(cfg.defaultVariants))
    IN resolveAndMerge(cfg, incomingProps, activeVariantProps, split.direct)

-----------------------------------------------------------------------------
(* src/unnamed/part_000: the generation with boolean variants *)

\* one entry of one contributor of this generation's mergeProps
b_mergePropsEntry(result, key, value) ==
    IF key = "className" /\ value.t = "str" /\ Truthy(value)
    THEN Set(result, "className", cn_index(<<Get(result, "className"), value>>))
    ELSE IF key = "style" /\ value.t = "obj" /\ Get(result, "style").t = "obj"
    THEN Set(result, "style", Sty(StyleAssign(Get(result, "style").v, value.v)))
    ELSE IF value # Undefined THEN Set(result, key, value)
    ELSE result

RECURSIVE b_mergePropsObject(_, _)
b_mergePropsObject(result, props) ==
    IF props = <<>> THEN result
    ELSE b_mergePropsObject(
             b_mergePropsEntry(result, Head(props).k, Head(props).val),
             Tail(props))

RECURSIVE b_mergePropsFrom(_, _)
b_mergePropsFrom(result, propsList) ==
    IF propsList = <<>> THEN result
    ELSE b_mergePropsFrom(
             IF Head(propsList) = Absent THEN result
             ELSE b_mergePropsObject(result, Head(propsList)[1]),
             Tail(propsList))

b_mergeProps(propsList) == b_mergePropsFrom(<<>>, propsList)

isBooleanVariant(variant) == Len(variant) = 1 /\ variant[1].k = "true"

RECURSIVE b_applyCompoundLoop(_, _, _)
b_applyCompoundLoop(compoundVariantProps, rules, currentProps) ==
    IF rules = <<>> THEN compoundVariantProps
    ELSE b_applyCompoundLoop(
             IF compoundIsMatch(Head(rules), currentProps)
             THEN b_mergeProps(<<Some(compoundVariantProps),
                                 Some(compoundSpecificProps(Head(rules)))>>)
             ELSE compoundVariantProps,
             Tail(rules), currentProps)

b_applyCompoundVariants(cfg, currentProps) ==
    IF cfg.compoundVariants = Absent \/ Len(cfg.compoundVariants[1]) = 0
    THEN <<>>
    ELSE b_applyCompoundLoop(<<>>, cfg.compoundVariants[1], currentProps)

\* one turn of the loop of applyBaseVariants; the default value is read
\* (lines 427-430) and never used
b_applyBaseStep(cfg, variantProps, category, currentProps) ==
    LET variantDef == category.opts
        isBoolean == isBooleanVariant(variantDef)
        given == Get(currentProps, category.k)
        skip == isBoolean /\ given # Bool(TRUE)
                /\ (given = Bool(FALSE) \/ given = Undefined
                    \/ given = Str("true") \/ given = Str("false"))
        propValue == IF isBoolean /\ given = Bool(TRUE) THEN Str("true")
                     ELSE given
    IN IF skip THEN variantProps
       ELSE IF propValue # Undefined /\ HasOption(variantDef, String(propValue))
       THEN b_mergeProps(<<Some(variantProps),
                           Some(Option(variantDef, String(propValue)))>>)
       ELSE variantProps

RECURSIVE b_applyBaseLoop(_, _, _, _)
b_applyBaseLoop(cfg, variantProps, categories, currentProps) ==
    IF categories = <<>> THEN variantProps
    ELSE b_applyBaseLoop(cfg,
             b_applyBaseStep(cfg, variantProps, Head(categories), currentProps),
             Tail(categories), currentProps)

b_applyBaseVariants(cfg, currentProps) ==
    IF cfg.variants = Absent THEN <<>>
    ELSE b_applyBaseLoop(cfg, <<>>, cfg.variants[1], currentProps)

\* this generation's separateProps keeps the props whose value is undefined
b_separateProps(cfg, allProps) ==
    [variantProps |-> SelectSeq(allProps, LAMBDA e : e.k \in variantKeysOf(cfg)),
     directProps |-> SelectSeq(allProps, LAMBDA e : e.k \notin variantKeysOf(cfg))]

\* the merge order of this generation is base, compound, simple, direct
b_StyledComponent(cfg, props) ==
    LET children == Get(props, "children")
        restProps == Without(props, {"children"})
        separated == b_separateProps(cfg, restProps)
        activeVariantProps == Assign(OrEmpty(cfg.defaultVariants),
                                     separated.variantProps)
        compoundVariantStyles ==
            b_applyCompoundVariants(cfg, activeVariantProps)
        baseVariantStyles == b_applyBaseVariants(cfg, activeVariantProps)
        mergedProps == b_mergeProps(<<Some(OrEmpty(cfg.base)),
                                      Some(compoundVariantStyles),
                                      Some(baseVariantStyles),
                                      Some(separated.directProps)>>)
    IN IF logEventThrows(cfg, restProps)
       THEN Thrown(props)
       ELSE
       [op |-> "render", incoming |-> props,
        active |-> activeVariantProps,
        direct |-> separated.directProps,
        variantRes |-> baseVariantStyles,
        compoundRes |-> compoundVariantStyles,
        merged |-> mergedProps,
        final |-> jsxProps(mergedProps, children)]

-----------------------------------------------------------------------------
(* src/src/useSlot.tsx *)

\* Components and the values of their static properties are objects with an
\* identity: heap is the sequence of the objects created so far and an
\* object is named by its position. kind is what typeof answers
\* ("function" for a function or class component, "object" for what
\* React.forwardRef returns and for any other object, "string" for a
\* primitive), super is the class it extends (0: none), decorated is its own
\* [Decorated] property, statics are its own enumerable string-keyed
\* properties in insertion order. uses counts the calls of useSlot that
\* were given the object as their component; the code keeps no such count
HeapObject(kind, super) ==
    [kind |-> kind, super |-> super, decorated |-> FALSE, statics |-> <<>>,
     uses |-> 0]

\* target[name], 0 when the object has no such own property
Static(h, target, name) ==
    IF Has(h[target].statics, name)
    THEN h[target].statics[Idx(h[target].statics, name)].val
    ELSE 0

\* mutant: the decoration mark is not looked at
readDecorated_never(h, component) == FALSE

\* component[Decorated] (line 60): the property is looked up on the object
\* and then along its prototype chain, a class inheriting the statics of
\* the class it extends
RECURSIVE readDecorated(_, _)
readDecorated(h, component) ==
    \/ h[component].decorated
    \/ /\ h[component].super # 0
       /\ readDecorated(h, h[component].super)

\* mutant: every value is copied by reference
RECURSIVE copyOwnProperties_byReference(_, _, _)
copyOwnProperties_byReference(h, copied, rest) ==
    [heap |-> h, statics |-> copied \o rest]

\* lines 72-81: each own property of the component is given to the clone,
\* a value of type object as a new object with the same own properties
RECURSIVE copyOwnProperties(_, _, _)
copyOwnProperties(h, copied, rest) ==
    IF rest = <<>> THEN [heap |-> h, statics |-> copied]
    ELSE LET key == Head(rest).k
             value == Head(rest).val
         IN IF h[value].kind = "object"
            THEN copyOwnProperties(
                     Append(h, [h[value] EXCEPT !.super = 0, !.uses = 0]),
                     Append(copied, [k |-> key, val |-> Len(h) + 1]),
                     Tail(rest))
            ELSE copyOwnProperties(h, Append(copied, Head(rest)), Tail(rest))

\* lines 63-82: a new forwardRef component that renders the original
ClonedComponent(h, component) ==
    LET id == Len(h) + 1
        copy == copyOwnProperties(Append(h, HeapObject("object", 0)), <<>>,
                                  h[component].statics)
    IN [heap |-> [copy.heap EXCEPT ![id].statics = copy.statics], id |-> id]

\* useSlot(component, staticProps): the heap after the call and the
\* component it returns
useSlot(h, component, staticProps) ==
    LET next == IF readDecorated(h, component)
                THEN ClonedComponent(h, component)
                ELSE [heap |-> h, id |-> component]
    IN [heap |-> [next.heap EXCEPT
                     ![next.id].statics = Assign(@, staticProps),
                     ![next.id].decorated = TRUE],
        result |-> next.id]

-----------------------------------------------------------------------------
(* src/helpers/useSlot.tsx *)

\* A slot definition is an object literal: a sequence of [k, val] entries
\* whose values are a reference to an object of the heap, a nested
\* definition, or something else (a string, a number, null, an array)
SlotRef(id) == [t |-> "ref", id |-> id, entries |-> <<>>]

SlotDef(entries) == [t |-> "def", id |-> 0, entries |-> entries]

SlotOther == [t |-> "other", id |-> 0, entries |-> <<>>]

\* typeof value === 'function'
isComponentType(h, value) == value.t = "ref" /\ h[value.id].kind = "function"

\* typeof value === 'object' && value !== null && !Array.isArray(value):
\* an object literal, or an object of the heap such as a forwardRef component
isObject(h, value) ==
    \/ value.t = "def"
    \/ value.t = "ref" /\ h[value.id].kind = "object"

\* Object.entries(definition): the entries of an object literal, or the
\* own enumerable properties of an object of the heap
entriesOf(h, definition) ==
    IF definition.t = "def" THEN definition.entries
    ELSE IF definition.t = "ref"
    THEN [i \in 1..Len(h[definition.id].statics) |->
             [k |-> h[definition.id].statics[i].k,
              val |-> SlotRef(h[definition.id].statics[i].val)]]
    ELSE <<>>

\* 'Root' in definition && isComponentType(definition.Root)
hasComponentRoot(h, definition) ==
    /\ Has(entriesOf(h, definition), "Root")
    /\ isComponentType(h, Get(entriesOf(h, definition), "Root"))

\* target[name] = value
setStatic(h, target, name, id) ==
    [h EXCEPT ![target].statics = Set(@, name, id)]

\* lines 47-78: the heap after the slots have been attached onto target
RECURSIVE attachSlotsRecursively(_, _, _)
attachSlotsRecursively(h, target, slotsToAttach) ==
    IF slotsToAttach = <<>> THEN h
    ELSE LET name == Head(slotsToAttach).k
             definition == Head(slotsToAttach).val
         IN attachSlotsRecursively(
                IF isComponentType(h, definition)
                THEN setStatic(h, target, name, definition.id)
                ELSE IF isObject(h, definition)
                        /\ hasComponentRoot(h, definition)
                THEN LET NestedRootComponent ==
                             Get(entriesOf(h, definition), "Root").id
                         subSlots == Without(entriesOf(h, definition), {"Root"})
                     IN attachSlotsRecursively(
                            setStatic(h, target, name, NestedRootComponent),
                            NestedRootComponent, subSlots)
                ELSE h,
                target, Tail(slotsToAttach))

\* useSlot(slots) of helpers/useSlot.tsx (lines 90-109): Component is a new
\* function component that renders the Root; the slots are attached onto it
\* and it is given a displayName, a new string
h_useSlot(h, slots) ==
    LET childSlotDefinitions == Without(slots, {"Root"})
        Component == Len(h) + 1
        attached == attachSlotsRecursively(
                        Append(h, HeapObject("function", 0)),
                        Component, childSlotDefinitions)
        displayName == Len(attached) + 1
    IN [heap |-> setStatic(Append(attached, HeapObject("string", 0)),
                           Component, "displayName", displayName),
        result |-> Component]

-----------------------------------------------------------------------------
(* configurations *)

P(k, x) == [k |-> k, val |-> x]

\* a compound rule whose effect sits under `props` (src/src generation)
PropsRule(conditions, effect) == [cond |-> conditions, props |-> Some(effect)]

\* a compound rule whose className and style are written on the rule itself
\* (index.tsx and part_000)
FlatRule(conditions, effect) == [cond |-> conditions \o effect, props |-> Absent]

ButtonVariants ==
    <<[k |-> "color",
       opts |-> <<[k |-> "primary",
                   props |-> <<P("className", Cls(<<"c-p">>)),
                               P("role", Str("r-color")),
                               P("style", Sty(<<"color", "blue">>))>>],
                  [k |-> "secondary",
                   props |-> <<P("className", Cls(<<"c-s", "p-2">>))>>]>>],
      [k |-> "size",
       opts |-> <<[k |-> "lg",
                   props |-> <<P("className", Cls(<<"c-l">>)),
                               P("role", Str("r-size")),
                               P("id", Str("v-size")),
                               P("style", Sty(<<"padding", "8">>))>>]>>],
      [k |-> "disabled",
       opts |-> <<[k |-> "true",
                   props |-> <<P("className", Cls(<<"dis">>)),
                               P("role", Str("r-dis")),
                               P("title", Str("off"))>>]>>]>>

ButtonBase ==
    <<P("id", Str("base")),
      P("className", Cls(<<"base", "p-4">>)),
      P("style", Sty(<<"color", "black", "margin", "1">>))>>

ButtonPropsRules ==
    <<PropsRule(<<P("color", Str("primary")), P("size", Str("lg"))>>,
                <<P("className", Cls(<<"combo">>)), P("id", Str("c1")),
                  P("lang", Str("l1")),
                  P("style", Sty(<<"margin", "2">>))>>),
      PropsRule(<<P("size", Str("lg"))>>,
                <<P("lang", Str("l2")), P("className", Cls(<<"combo2">>))>>),
      PropsRule(<<P("disabled", Bool(TRUE)), P("color", Str("secondary"))>>,
                <<P("title", Str("c3"))>>)>>

ButtonFlatRules ==
    <<FlatRule(<<P("color", Str("primary")), P("size", Str("lg"))>>,
               <<P("className", Cls(<<"combo">>)),
                 P("style", Sty(<<"margin", "2">>))>>),
      FlatRule(<<P("size", Str("lg"))>>,
               <<P("className", Cls(<<"combo2">>)),
                 P("style", Sty(<<"margin", "3", "border", "1">>))>>),
      FlatRule(<<P("disabled", Bool(TRUE)), P("color", Str("secondary"))>>,
               <<P("className", Cls(<<"combo3">>))>>)>>

\* every section present; color defaults to primary
ButtonConfig(rules) ==
    [name |-> "Button", base |-> Some(ButtonBase),
     variants |-> Some(ButtonVariants),
     defaultVariants |-> Some(<<P("color", Str("primary"))>>),
     compoundVariants |-> Some(rules),
     debug |-> FALSE]

\* the defaults name the categories in the reverse of their declaration
\* order and switch the boolean variant on
ToggleConfig(rules) ==
    [name |-> "Toggle", base |-> Some(<<P("id", Str("base"))>>),
     variants |-> Some(ButtonVariants),
     defaultVariants |-> Some(<<P("disabled", Bool(TRUE)),
                                P("size", Str("lg"))>>),
     compoundVariants |-> Some(rules),
     debug |-> FALSE]

\* variants only: no base, no defaults and an empty rule list
PlainConfig ==
    [name |-> "Plain", base |-> Absent,
     variants |-> Some(ButtonVariants),
     defaultVariants |-> Absent,
     compoundVariants |-> Some(<<>>),
     debug |-> FALSE]

\* neither variants nor compoundVariants
BareConfig ==
    [name |-> "Bare", base |-> Some(ButtonBase),
     variants |-> Absent, defaultVariants |-> Absent,
     compoundVariants |-> Absent,
     debug |-> FALSE]

\* defaults without variants: neither variants nor compoundVariants
DefaultsOnlyConfig ==
    [name |-> "DefaultsOnly", base |-> Some(ButtonBase),
     variants |-> Absent,
     defaultVariants |-> Some(<<P("color", Str("primary"))>>),
     compoundVariants |-> Absent,
     debug |-> FALSE]

\* a rule without conditions, a rule on theme, which is no category of the
\* variants, and a rule that carries conditions only
ThemedPropsRules ==
    <<PropsRule(<<>>, <<P("lang", Str("always")),
                        P("className", Cls(<<"always">>))>>),
      PropsRule(<<P("theme", Str("dark"))>>,
                <<P("title", Str("dark")), P("className", Cls(<<"dark">>))>>),
      [cond |-> <<P("color", Str("primary"))>>, props |-> Absent]>>

ThemedFlatRules ==
    <<FlatRule(<<>>, <<P("className", Cls(<<"always">>))>>),
      FlatRule(<<P("theme", Str("dark"))>>,
               <<P("className", Cls(<<"dark">>)),
                 P("style", Sty(<<"border", "2">>))>>),
      FlatRule(<<P("color", Str("primary"))>>, <<>>)>>

\* theme is given a default although the variants have no such category,
\* and the base carries a ref of its own
ThemedConfig(rules) ==
    [name |-> "Themed",
     base |-> Some(<<P("id", Str("base")), P("ref", Ref("baseRef"))>>),
     variants |-> Some(ButtonVariants),
     defaultVariants |-> Some(<<P("theme", Str("dark"))>>),
     compoundVariants |-> Some(rules),
     debug |-> FALSE]

\* two categories are named like the children slot and the ref prop
CollisionConfig ==
    [name |-> "Collision", base |-> Absent,
     variants |-> Some(<<[k |-> "children",
                          opts |-> <<[k |-> "x",
                                      props |-> <<P("className", Cls(<<"kid">>))>>]>>],
                         [k |-> "ref",
                          opts |-> <<[k |-> "on",
                                      props |-> <<P("className", Cls(<<"refd">>))>>]>>]>>),
     defaultVariants |-> Absent,
     compoundVariants |-> Absent,
     debug |-> FALSE]

\* the Button configuration with trace logging switched on
DebugConfig(rules) ==
    [ButtonConfig(rules) EXCEPT !.name = "DebugButton", !.debug = TRUE]

Impls == {"current", "earlier", "index", "boolean"}

ConfigsFor(i) ==
    IF i \in {"current", "earlier"}
    THEN {ButtonConfig(ButtonPropsRules), ToggleConfig(ButtonPropsRules),
          DebugConfig(ButtonPropsRules),
          PlainConfig, BareConfig, CollisionConfig,
          DefaultsOnlyConfig, ThemedConfig(ThemedPropsRules)}
    ELSE {ButtonConfig(ButtonFlatRules), ToggleConfig(ButtonFlatRules),
          DebugConfig(ButtonFlatRules),
          PlainConfig, BareConfig, CollisionConfig,
          DefaultsOnlyConfig, ThemedConfig(ThemedFlatRules)}

-----------------------------------------------------------------------------
(* incoming props *)

MaxProps == 2

PropChoices ==
    {P("color", Str("primary")), P("color", Str("secondary")),
     P("color", Str("teal")), P("color", Undefined),
     P("size", Str("lg")), P("size", Undefined),
     P("disabled", Bool(TRUE)), P("disabled", Bool(FALSE)),
     P("disabled", Str("true")), P("disabled", Str("false")),
     P("id", Str("direct")), P("id", Undefined),
     P("className", Cls(<<"extra">>)), P("className", Cls(<<"p-2", "px-4">>)),
     P("className", Cls(<<>>)),
     P("style", Sty(<<"color", "red">>)), P("style", Sty(<<>>)),
     P("theme", Str("dark")), P("theme", Str("light")),
     P("children", Str("x")), P("ref", Ref("r1")), P("ref", Null),
     P("data", Circular)}

\* the property bags of at most n props with distinct keys, in every order
RECURSIVE PropBags(_, _)
PropBags(choices, n) ==
    IF n = 0 THEN {<<>>}
    ELSE LET shorter == PropBags(choices, n - 1)
         IN shorter \cup
            {Append(o, e) : <<o, e>> \in
                {<<o, e>> \in shorter \X choices : ~Has(o, e.k)}}

IncomingProps == PropBags(PropChoices, MaxProps)

-----------------------------------------------------------------------------
(* components and slots given to useSlot *)

\* the objects that exist before the first call: two function components,
\* a React.forwardRef component and a class component that extends CardRoot
CardRoot == 1

Icon == 2

Label == 3

FancyCard == 4

InitialHeap ==
    <<HeapObject("function", 0), HeapObject("function", 0),
      HeapObject("object", 0), HeapObject("function", CardRoot)>>

\* useSlot is called at most this many times
MaxCalls == 3

MaxStatics == 2

StaticChoices == {P("Icon", Icon), P("Icon", Label), P("Label", Label)}

StaticProps == PropBags(StaticChoices, MaxStatics)

\* what useSlot is given as its component: one of the two card components
\* or a component an earlier call returned
Components(h) ==
    {CardRoot, FancyCard} \cup {c \in 1..Len(h) : h[c].decorated}

RECURSIVE Calls(_)
Calls(h) == IF h = <<>> THEN 0 ELSE Head(h).uses + Calls(Tail(h))

\* a nested definition {Root: root, Icon: icon}
Nested(root, icon) ==
    SlotDef(<<P("Root", SlotRef(root)), P("Icon", SlotRef(icon))>>)

\* what a definition gives as Left: a function component, a forwardRef
\* component, a string, a nested definition whose Root is a function
\* component, one whose Root is a forwardRef component, one without Root,
\* one whose Root is the Root of the whole definition, and one that nests
\* the same Root again, as the Button fixture of the tests does
LeftChoices ==
    {SlotRef(Icon), SlotRef(Label), SlotOther,
     Nested(FancyCard, Icon), Nested(Label, Icon),
     SlotDef(<<P("Icon", SlotRef(Icon))>>),
     Nested(CardRoot, Icon),
     SlotDef(<<P("Root", SlotRef(FancyCard)), P("Icon", SlotRef(Icon)),
               P("Test", Nested(FancyCard, Icon))>>)}

\* what a definition gives as Right: the nested Root of Left again, with
\* the same Icon or with another one
RightChoices ==
    {SlotRef(Icon), Nested(FancyCard, Icon), Nested(FancyCard, CardRoot)}

\* the definitions useSlot(slots) is called with: Root, then Left and Right
\* when given
SlotDefinitions ==
    {<<P("Root", SlotRef(CardRoot))>> \o l \o r :
        l \in {<<>>} \cup {<<P("Left", v)>> : v \in LeftChoices},
        r \in {<<>>} \cup {<<P("Right", v)>> : v \in RightChoices}}

\* useSlot(slots) is called at most this many times
MaxDefinitions == 2

-----------------------------------------------------------------------------
(* arguments of direct calls of the exported utilities *)

MaxStyles == 3

StyleChoices ==
    {Sty(<<"color", "red">>), Sty(<<"color", "blue", "margin", "5">>),
     Sty(<<"fontSize", "16">>), Sty(<<>>), Null, Undefined}

\* the active selections the resolvers are called with: theme is a category
\* no configuration has
MaxSelection == 2

SelectionChoices ==
    {P("color", Str("primary")), P("color", Str("secondary")),
     P("color", Str("teal")), P("color", Undefined),
     P("size", Str("lg")),
     P("disabled", Bool(TRUE)), P("disabled", Bool(FALSE)),
     P("disabled", Str("true")),
     P("theme", Str("dark"))}

ActiveSelections == PropBags(SelectionChoices, MaxSelection)

\* the propertySets mergeProps is called with
MaxMergeKeys == 2

MergeChoices ==
    {P("className", Cls(<<"p-4">>)), P("className", Cls(<<"base", "p-2">>)),
     P("className", Cls(<<>>)),
     P("style", Sty(<<"color", "red">>)),
     P("style", Sty(<<"color", "blue", "margin", "5">>)), P("style", Sty(<<>>)),
     P("id", Str("a")), P("id", Undefined),
     P("ref", Ref("r1"))}

\* the contributors of a three-way merge: a propertySet, or undefined
SequencedChoices ==
    {P("className", Cls(<<"p-4">>)), P("className", Cls(<<"base", "p-2">>)),
     P("style", Sty(<<"color", "red">>)),
     P("style", Sty(<<"color", "blue", "margin", "5">>)),
     P("id", Str("a")), P("id", Undefined)}

Contributors ==
    {Absent} \cup {Some(o) : o \in PropBags(SequencedChoices, MaxMergeKeys)}

RECURSIVE SeqsUpTo(_, _)
SeqsUpTo(S, n) ==
    IF n = 0 THEN {<<>>}
    ELSE LET shorter == SeqsUpTo(S, n - 1)
         IN shorter \cup {Append(q, x) : <<q, x>> \in shorter \X S}

-----------------------------------------------------------------------------
(* the state machine: a generation of the library is installed with one    *)
(* configuration, and the styled component is rendered again and again.    *)
(* call holds the render in progress: its incoming props, its working      *)
(* objects and the props it forwards; they are discarded when it returns.  *)
(* rendered tells whether a render has returned before                     *)

NoCall == [op |-> "none"]

Init ==
    /\ impl \in Impls
    /\ config \in ConfigsFor(impl)
    /\ call = NoCall
    /\ rendered = FALSE
    /\ heap = <<>>

RenderCurrent ==
    /\ impl = "current"
    /\ call = NoCall
    /\ \E props \in IncomingProps :
           /\ call' = StyledComponentInternal(config, props)
           /\ config' = configAfterSplit(
                            config, StyledComponentInternal(config, props).active)
    /\ UNCHANGED <<impl, rendered, heap>>

RenderEarlier ==
    /\ impl = "earlier"
    /\ call = NoCall
    /\ \E props \in IncomingProps :
           call' = StyledComponentInternalEarlier(config, props)
    /\ UNCHANGED <<impl, config, rendered, heap>>

RenderIndex ==
    /\ impl = "index"
    /\ call = NoCall
    /\ \E props \in IncomingProps :
           call' = StyledComponent(config, props)
    /\ UNCHANGED <<impl, config, rendered, heap>>

RenderBoolean ==
    /\ impl = "boolean"
    /\ call = NoCall
    /\ \E props \in IncomingProps :
           call' = b_StyledComponent(config, props)
    /\ UNCHANGED <<impl, config, rendered, heap>>

\* mergeStyles(...styles), called as the tests of utils call it
CallMergeStyles ==
    /\ impl \in {"current", "earlier"}
    /\ call = NoCall
    /\ \E styles \in SeqsUpTo(StyleChoices, MaxStyles) :
           call' = [op |-> "mergeStyles", styles |-> styles,
                    result |-> mergeStyles(styles)]
    /\ UNCHANGED <<impl, config, rendered, heap>>

\* resolveVariantProps(configVariants, activeVariants), called directly
CallResolveVariantProps ==
    /\ impl \in {"current", "earlier"}
    /\ call = NoCall
    /\ \E activeVariants \in ActiveSelections :
           call' = [op |-> "resolveVariantProps",
                    configVariants |-> config.variants,
                    activeVariants |-> activeVariants,
                    result |-> resolveVariantProps(config.variants,
                                                   activeVariants)]
    /\ UNCHANGED <<impl, config, rendered, heap>>

\* resolveCompoundVariantProps(compoundVariantsConfig, activeVariants),
\* called directly
CallResolveCompoundVariantProps ==
    /\ impl \in {"current", "earlier"}
    /\ call = NoCall
    /\ \E activeVariants \in ActiveSelections :
           call' = [op |-> "resolveCompoundVariantProps",
                    compoundVariantsConfig |-> config.compoundVariants,
                    activeVariants |-> activeVariants,
                    result |-> resolveCompoundVariantProps(
                                   config.compoundVariants, activeVariants)]
    /\ UNCHANGED <<impl, config, rendered, heap>>

\* mergeProps(A, B) of index.tsx, and mergeProps of its result
CallMergeProps ==
    /\ impl = "index"
    /\ call = NoCall
    /\ \E A, B \in PropBags(MergeChoices, MaxMergeKeys) :
           call' = [op |-> "mergeProps", A |-> A, B |-> B,
                    result |-> mergeProps(<<Some(A), Some(B)>>),
                    again |-> mergeProps(<<Some(mergeProps(<<Some(A), Some(B)>>))>>)]
    /\ UNCHANGED <<impl, config, rendered, heap>>

\* mergeProps(A, B, C) of index.tsx, and mergeProps(mergeProps(A, B), C)
CallMergePropsSequenced ==
    /\ impl = "index"
    /\ call = NoCall
    /\ \E A, B, C \in Contributors :
           call' = [op |-> "mergeProps3", A |-> A, B |-> B, C |-> C,
                    result |-> mergeProps(<<A, B, C>>),
                    sequenced |-> mergeProps(
                                      <<Some(mergeProps(<<A, B>>)), C>>)]
    /\ UNCHANGED <<impl, config, rendered, heap>>

\* useSlot(component, staticProps) of src/src/useSlot.tsx; before is the
\* heap the call started from
UseSlot ==
    /\ impl = "current"
    /\ call = NoCall
    /\ heap # <<>>
    /\ \E component \in Components(heap), staticProps \in StaticProps :
           LET r == useSlot(heap, component, staticProps)
           IN /\ Calls(heap) < MaxCalls
              /\ heap' = [r.heap EXCEPT ![component].uses = @ + 1]
              /\ call' = [op |-> "useSlot", component |-> component,
                          staticProps |-> staticProps, result |-> r.result,
                          nth |-> heap[component].uses + 1,
                          before |-> heap]
    /\ UNCHANGED <<impl, config, rendered>>

\* useSlot(slots) of src/helpers/useSlot.tsx; before is the heap the call
\* started from, and the new wrapper counts the call
UseSlotDefinition ==
    /\ impl = "current"
    /\ call = NoCall
    /\ heap # <<>>
    /\ Calls(heap) < MaxDefinitions
    /\ \E slots \in SlotDefinitions :
           LET r == h_useSlot(heap, slots)
           IN /\ heap' = [r.heap EXCEPT ![r.result].uses = 1]
              /\ call' = [op |-> "useSlotDefinition", slots |-> slots,
                          result |-> r.result, before |-> heap]
    /\ UNCHANGED <<impl, config, rendered>>

\* the render returns its element and its working objects are dropped
Return ==
    /\ call # NoCall
    /\ call' = NoCall
    /\ rendered' = (rendered \/ call.op = "render")
    /\ UNCHANGED <<impl, config, heap>>

Next ==
    \/ RenderCurrent
    \/ RenderEarlier
    \/ RenderIndex
    \/ RenderBoolean
    \/ CallMergeStyles
    \/ CallResolveVariantProps
    \/ CallResolveCompoundVariantProps
    \/ Return

Spec == Init /\ [][Next]_vars

\* the exported mergeProps of index.tsx called on its own: it reads no
\* configuration and no render precedes it
InitMerge ==
    /\ impl = "index"
    /\ config = BareConfig
    /\ call = NoCall
    /\ rendered = FALSE
    /\ heap = <<>>

NextMerge ==
    \/ CallMergeProps
    \/ CallMergePropsSequenced
    \/ Return

SpecMerge == InitMerge /\ [][NextMerge]_vars

\* useSlot of src/src/useSlot.tsx called again and again on the components
\* created so far
InitSlot ==
    /\ impl = "current"
    /\ config = BareConfig
    /\ call = NoCall
    /\ rendered = FALSE
    /\ heap = InitialHeap

NextSlot ==
    \/ UseSlot
    \/ Return

SpecSlot == InitSlot /\ [][NextSlot]_vars

\* useSlot(slots) of src/helpers/useSlot.tsx called on the same components
NextSlotDefinition ==
    \/ UseSlotDefinition
    \/ Return

SpecSlotDefinition == InitSlot /\ [][NextSlotDefinition]_vars

-----------------------------------------------------------------------------
(* what a render is expected to use, read off the configuration *)

Reserved == {"className", "style", "ref"}

Rendering == call.op = "render"

\* the propertySets of the options the active selection selects, in the
\* declaration order of the categories
SelectedOptions(cfg, active) ==
    LET cats == OrEmpty(cfg.variants)
        chosen == SelectSeq(cats, LAMBDA c :
                      /\ Get(active, c.k) # Undefined
                      /\ \E i \in 1..Len(c.opts) :
                             <<c.opts[i].k>> = String(Get(active, c.k)))
    IN [i \in 1..Len(chosen) |->
           chosen[i].opts[CHOOSE j \in 1..Len(chosen[i].opts) :
               <<chosen[i].opts[j].k>> = String(Get(active, chosen[i].k))].props]

\* a rule's condition: every key written on it but className, style, props
RuleCondition(rule) == Without(rule.cond, {"className", "style"})

\* a rule's effect: its className and style, and its props sub-object
RuleEffect(rule) ==
    SelectSeq(rule.cond, LAMBDA e : e.k \in {"className", "style"})
    \o OrEmpty(rule.props)

RuleMatches(rule, active) ==
    \A i \in 1..Len(RuleCondition(rule)) :
        Get(active, RuleCondition(rule)[i].k) = RuleCondition(rule)[i].val

\* the effects of the matching rules, in rule-array order
MatchingEffects(cfg, active) ==
    LET matching == SelectSeq(OrEmpty(cfg.compoundVariants),
                              LAMBDA r : RuleMatches(r, active))
    IN [i \in 1..Len(matching) |-> RuleEffect(matching[i])]

\* the values a sequence of propertySets gives to the key k
ValuesFor(sets, k) == {Get(sets[i], k) : i \in {j \in 1..Len(sets) : Has(sets[j], k)}}

-----------------------------------------------------------------------------
(* claims *)

\* C1: on every render, each non-reserved key is forwarded with the value of
\* the highest-priority source that has the key, in the order
\* base < selected simple variants < matching compound rules < direct props
C1_Precedence ==
    (Rendering /\ impl \in {"current", "earlier", "index"}) =>
        LET variantSets == SelectedOptions(config, call.active)
            compoundSets == MatchingEffects(config, call.active)
            base == OrEmpty(config.base)
            keys == (KeySet(call.final) \cup KeySet(call.direct) \cup KeySet(base)
                     \cup UNION {KeySet(variantSets[i]) : i \in 1..Len(variantSets)}
                     \cup UNION {KeySet(compoundSets[i]) : i \in 1..Len(compoundSets)})
                    \ (Reserved \cup {"children"})
        IN \A k \in keys :
               IF Has(call.direct, k)
               THEN Get(call.final, k) = Get(call.direct, k)
               ELSE IF ValuesFor(compoundSets, k) # {}
               THEN Get(call.final, k) \in ValuesFor(compoundSets, k)
               ELSE IF ValuesFor(variantSets, k) # {}
               THEN Get(call.final, k) \in ValuesFor(variantSets, k)
               ELSE Has(base, k) => Get(call.final, k) = Get(base, k)

\* a render where base, a selected variant and a matching compound rule all
\* define id and the compound rule's value is forwarded, a direct prop
\* overriding another key
C1_Witness ==
    /\ Rendering
    /\ impl = "current"
    /\ Has(OrEmpty(config.base), "id")
    /\ Str("v-size") \in ValuesFor(SelectedOptions(config, call.active), "id")
    /\ ValuesFor(MatchingEffects(config, call.active), "id") = {Str("c1")}
    /\ ~Has(call.direct, "id")
    /\ Has(call.direct, "theme")
    /\ Get(call.final, "id") = Str("c1")
    /\ Get(call.final, "theme") = Str("dark")

\* the class tokens of a className value (none when it is not a string)
Tokens(x) == IF x.t = "str" THEN x.v ELSE <<>>

IsSuffix(a, b) == Len(a) <= Len(b) /\ SubSeq(b, Len(b) - Len(a) + 1, Len(b)) = a

StyleObjects(contributors) == SelectSeq(contributors, LAMBDA x : x.t = "obj")

\* result is the shallow overlay of the contributors: it has the inner keys
\* of all of them, each with the value of the last contributor that has it
IsOverlay(result, contributors) ==
    LET objs == StyleObjects(contributors)
        flat == IF result.t = "obj" THEN result.v ELSE <<>>
    IN /\ StyleKeys(flat) = UNION {StyleKeys(objs[i].v) : i \in 1..Len(objs)}
       /\ \A k \in StyleKeys(flat) :
              LET last == CHOOSE i \in 1..Len(objs) :
                              /\ StyleHas(objs[i].v, k)
                              /\ \A j \in (i + 1)..Len(objs) : ~StyleHas(objs[j].v, k)
              IN StyleGet(flat, k) = StyleGet(objs[last].v, k)

-----------------------------------------------------------------------------
(* what a propertySet leaves in a result. The configurations give every    *)
(* option and every rule classes, style values and prop values that no     *)
(* other source gives, so a value found in a result names its source       *)

ClassSet(props) ==
    {Tokens(Get(props, "className"))[i] :
        i \in 1..Len(Tokens(Get(props, "className")))}

StyleOf(props) ==
    IF Get(props, "style").t = "obj" THEN Get(props, "style").v ELSE <<>>

StylePairs(props) ==
    {<<k, StyleGet(StyleOf(props), k)>> : k \in StyleKeys(StyleOf(props))}

PlainKeys(props) == KeySet(props) \ Reserved

\* every class, inner style key and prop key of props is in res
Contributed(res, props) ==
    /\ ClassSet(props) \subseteq ClassSet(res)
    /\ StyleKeys(StyleOf(props)) \subseteq StyleKeys(StyleOf(res))
    /\ PlainKeys(props) \subseteq KeySet(res)

\* no class, style value or prop value of props is in res
NotContributed(res, props) ==
    /\ ClassSet(props) \cap ClassSet(res) = {}
    /\ StylePairs(props) \cap StylePairs(res) = {}
    /\ \A k \in PlainKeys(props) : Get(res, k) # Get(props, k)

\* C4: for every category with a default, the active selection is the
\* instance's value when the instance supplies a defined one, and the default
\* when the instance omits the category or supplies undefined
C4_DefaultOverlay ==
    Rendering =>
        LET defaults == OrEmpty(config.defaultVariants)
        IN \A i \in 1..Len(defaults) :
               Get(call.active, defaults[i].k) =
                   IF Get(call.incoming, defaults[i].k) # Undefined
                   THEN Get(call.incoming, defaults[i].k)
                   ELSE defaults[i].val

\* C5: when the default of a category is true and the instance passes false,
\* the active selection is false and nothing of the category's `true`
\* propertySet is in the forwarded props
C5_ExplicitFalse ==
    Rendering =>
        LET cats == OrEmpty(config.variants)
        IN \A i \in 1..Len(cats) :
               (/\ Get(OrEmpty(config.defaultVariants), cats[i].k) = Bool(TRUE)
                /\ Get(call.incoming, cats[i].k) = Bool(FALSE))
               => /\ Get(call.active, cats[i].k) = Bool(FALSE)
                  /\ HasOption(cats[i].opts, <<"true">>) =>
                         NotContributed(call.final,
                                        Option(cats[i].opts, <<"true">>))

\* disabled defaults to true and the instance passes false: the option's
\* title is not forwarded and the role is the one of the default size
C5_Witness ==
    /\ Rendering
    /\ impl = "current"
    /\ Get(OrEmpty(config.defaultVariants), "disabled") = Bool(TRUE)
    /\ Get(call.incoming, "disabled") = Bool(FALSE)
    /\ Get(call.active, "disabled") = Bool(FALSE)
    /\ ~Has(call.final, "title")
    /\ Get(call.final, "role") = Str("r-size")

\* C6: a category whose only option is `true` contributes that option's
\* propertySet to the simple-variant result if and only if the selection is
\* the boolean true
C6_BooleanGuard ==
    Rendering =>
        LET cats == OrEmpty(config.variants)
        IN \A i \in 1..Len(cats) :
               (Len(cats[i].opts) = 1 /\ cats[i].opts[1].k = "true") =>
                   IF Get(call.active, cats[i].k) = Bool(TRUE)
                   THEN Contributed(call.variantRes, cats[i].opts[1].props)
                   ELSE NotContributed(call.variantRes, cats[i].opts[1].props)

\* the options of a variants configuration, as <<category, option>> indices
OptionIndices(cats) ==
    UNION {{<<i, j>> : j \in 1..Len(cats[i].opts)} : i \in 1..Len(cats)}

\* the option is the one the selection names: the selection has a defined
\* value for the category and the option key is its string conversion
Applied(cats, active, ij) ==
    /\ Get(active, cats[ij[1]].k) # Undefined
    /\ <<cats[ij[1]].opts[ij[2]].k>> = String(Get(active, cats[ij[1]].k))

OptionProps(cats, ij) == cats[ij[1]].opts[ij[2]].props

\* res holds what the applied options give and nothing else
ResolvesSimply(variants, active, res) ==
    LET cats == OrEmpty(variants)
        applied == {ij \in OptionIndices(cats) : Applied(cats, active, ij)}
    IN /\ \A ij \in OptionIndices(cats) :
              IF ij \in applied
              THEN Contributed(res, OptionProps(cats, ij))
              ELSE NotContributed(res, OptionProps(cats, ij))
       /\ \A k \in PlainKeys(res) :
              \E ij \in applied : /\ Has(OptionProps(cats, ij), k)
                                  /\ Get(OptionProps(cats, ij), k) = Get(res, k)
       /\ ClassSet(res) \subseteq
              UNION {ClassSet(OptionProps(cats, ij)) : ij \in applied}
       /\ StylePairs(res) \subseteq
              UNION {StylePairs(OptionProps(cats, ij)) : ij \in applied}

Orders(q) ==
    {[i \in 1..Len(q) |-> q[f[i]]] :
        f \in {g \in [1..Len(q) -> 1..Len(q)] :
                  \A a, b \in 1..Len(q) : a # b => g[a] # g[b]}}

SameMapping(a, b) ==
    /\ KeySet(a) = KeySet(b)
    /\ \A k \in KeySet(a) : Get(a, k) = Get(b, k)

\* the render of a generation
RenderOf(i, cfg, props) ==
    IF i = "current" THEN StyledComponentInternal(cfg, props)
    ELSE IF i = "earlier" THEN StyledComponentInternalEarlier(cfg, props)
    ELSE IF i = "index" THEN StyledComponent(cfg, props)
    ELSE b_StyledComponent(cfg, props)

\* C8: in the simple-variant result a non-reserved key has the value of the
\* last category, in the declaration order of config.variants, whose selected
\* option defines it; and enumerating the incoming props or defaultVariants in
\* another order forwards the same props
C8_DeclarationOrder ==
    (Rendering /\ impl \in {"current", "earlier", "index"}) =>
        LET selected == SelectedOptions(config, call.active)
            defining(k) == {i \in 1..Len(selected) : Has(selected[i], k)}
            last(k) == CHOOSE i \in defining(k) : \A j \in defining(k) : j <= i
        IN /\ \A k \in PlainKeys(call.variantRes) :
                  defining(k) # {} =>
                      Get(call.variantRes, k) = Get(selected[last(k)], k)
           /\ \A props \in Orders(call.incoming) :
                  SameMapping(RenderOf(impl, config, props).final, call.final)
           /\ \A defaults \in Orders(OrEmpty(config.defaultVariants)) :
                  SameMapping(
                      RenderOf(impl,
                               [config EXCEPT !.defaultVariants = Some(defaults)],
                               call.incoming).final,
                      call.final)

\* res holds something of every matching rule and nothing of any other
ResolvesCompound(rules, active, res) ==
    LET rs == OrEmpty(rules)
        matching == {i \in 1..Len(rs) : RuleMatches(rs[i], active)}
    IN /\ \A i \in 1..Len(rs) :
              IF i \in matching
              THEN KeySet(RuleEffect(rs[i])) \subseteq KeySet(res)
              ELSE NotContributed(res, RuleEffect(rs[i]))
       /\ \A k \in PlainKeys(res) :
              \E i \in matching : /\ Has(RuleEffect(rs[i]), k)
                                  /\ Get(RuleEffect(rs[i]), k) = Get(res, k)
       /\ ClassSet(res) \subseteq
              UNION {ClassSet(RuleEffect(rs[i])) : i \in matching}
       /\ StylePairs(res) \subseteq
              UNION {StylePairs(RuleEffect(rs[i])) : i \in matching}

\* C9: a compound rule contributes if and only if every one of its condition
\* keys has, in the active selection, a value strictly equal to the required
\* one (a missing key fails, a string never equals a boolean); an absent or
\* empty rule list gives the empty propertySet
C9_CompoundMatch ==
    /\ call.op = "resolveCompoundVariantProps" =>
           /\ ResolvesCompound(call.compoundVariantsConfig,
                               call.activeVariants, call.result)
           /\ OrEmpty(call.compoundVariantsConfig) = <<>> => call.result = <<>>
    /\ Rendering =>
           /\ ResolvesCompound(config.compoundVariants, call.active,
                               call.compoundRes)
           /\ OrEmpty(config.compoundVariants) = <<>> =>
                  /\ PlainKeys(call.compoundRes) = {}
                  /\ ClassSet(call.compoundRes) = {}
                  /\ StylePairs(call.compoundRes) = {}

\* the selection is size lg, color secondary and the string "true" for
\* disabled: the rule on size matches, the rule requiring the boolean true
\* for disabled does not
C9_Witness ==
    /\ Rendering
    /\ impl = "current"
    /\ Get(call.active, "disabled") = Str("true")
    /\ Get(call.active, "color") = Str("secondary")
    /\ Get(call.active, "size") = Str("lg")
    /\ Len(OrEmpty(config.compoundVariants)) = 3
    /\ Get(call.compoundRes, "lang") = Str("l2")
    /\ ~Has(call.compoundRes, "title")

\* every matching rule is in res, a non-reserved key having the value of the
\* last matching rule that defines it
AllMatchesContribute(rules, active, res) ==
    LET effects == MatchingEffects([compoundVariants |-> rules], active)
        defining(k) == {i \in 1..Len(effects) : Has(effects[i], k)}
        last(k) == CHOOSE i \in defining(k) : \A j \in defining(k) : j <= i
    IN /\ \A i \in 1..Len(effects) : KeySet(effects[i]) \subseteq KeySet(res)
       /\ \A k \in UNION {PlainKeys(effects[i]) : i \in 1..Len(effects)} :
              Get(res, k) = Get(effects[last(k)], k)

\* C10: compound resolution goes through the whole rule array: every
\* matching rule contributes, in array order, and a non-reserved key defined
\* by two matching rules has the value of the later one; where the rules
\* carry className and style, the classes and inner style keys of every
\* matching rule are in the compound result
C10_NoShortCircuit ==
    /\ call.op = "resolveCompoundVariantProps" =>
           AllMatchesContribute(call.compoundVariantsConfig,
                                call.activeVariants, call.result)
    /\ Rendering =>
           AllMatchesContribute(config.compoundVariants, call.active,
                                call.compoundRes)
    /\ (Rendering /\ impl \in {"index", "boolean"}) =>
           LET effects == MatchingEffects(config, call.active)
           IN \A i \in 1..Len(effects) : Contributed(call.compoundRes, effects[i])

\* two rules match, both defining lang: the result has the id of the first
\* and the lang of the second
C10_Witness ==
    /\ call.op = "resolveCompoundVariantProps"
    /\ Len(MatchingEffects([compoundVariants |-> call.compoundVariantsConfig],
                           call.activeVariants)) = 2
    /\ Get(call.result, "id") = Str("c1")
    /\ Get(call.result, "lang") = Str("l2")


C13_UndefinedNotProvided ==
    Rendering =>
        \A k \in KeySet(call.incoming) \ (KeySet(OrEmpty(config.variants)) \cup Reserved) :
            Get(call.incoming, k) = Undefined =>
                Get(call.final, k) =
                    Get(RenderOf(impl, config, Without(call.incoming, {k})).final, k)


\* C14: the merged output has no empty reserved entry: mergeStyles never
\* returns an object with zero keys, and the forwarded props have neither an
\* empty className nor a style with zero keys
C14_NoEmptyReserved ==
    /\ call.op = "mergeStyles" => call.result # Sty(<<>>)
    /\ (Rendering /\ impl \in {"current", "earlier"}) =>
           /\ Get(call.final, "className") # Cls(<<>>)
           /\ Get(call.final, "style") # Sty(<<>>)


ConstructedConfig == CHOOSE c \in ConfigsFor(impl) : c.name = config.name

C17_SplitIsPartition ==
    Rendering =>
        /\ \A k \in KeySet(call.incoming) \cap variantKeysOf(config) :
               ~Has(call.direct, k)
        /\ \A k \in KeySet(call.incoming) \ (variantKeysOf(config) \cup Reserved) :
               Get(call.incoming, k) # Undefined =>
                   Get(call.final, k) = Get(call.incoming, k)


\* C18: children and ref are never variant selectors, also when
\* config.variants has a category of that name: they do not enter the
\* active selection and are passed through to the base component
C18_ChildrenAndRefPassThrough ==
    Rendering =>
        \A k \in {"children", "ref"} \cap KeySet(call.incoming) :
            /\ ~Has(call.active, k)
            /\ Get(call.final, k) = Get(call.incoming, k)


\* C19: trace logging has no effect on the result: a render with debug set
\* completes and forwards what the render of the same configuration without
\* debug forwards; an error of the logging step never leaves the render
C19_LoggingHasNoEffect ==
    call.op \in {"render", "throw"} =>
        /\ call.op = "render"
        /\ call.final =
               RenderOf(impl, [config EXCEPT !.debug = FALSE], call.incoming).final


\* C20: merging is idempotent: mergeProps of the result of mergeProps(A, B),
\* as the only contributor, is that result again
C20_MergeIdempotent ==
    call.op = "mergeProps" => SameMapping(call.again, call.result)

\* A and B both carry className and style and B a ref: the merged
\* propertySet, with the conflicting class resolved, merges to itself
C20_Witness ==
    /\ call.op = "mergeProps"
    /\ call.A = <<P("className", Cls(<<"p-4">>)),
                  P("style", Sty(<<"color", "red">>))>>
    /\ Get(call.B, "className") = Cls(<<"base", "p-2">>)
    /\ Has(call.B, "ref")
    /\ Get(call.result, "className") = Cls(<<"base", "p-2">>)
    /\ Get(call.result, "ref") = Ref("r1")
    /\ call.again = call.result


\* C21: merging is associative under sequencing: mergeProps(A, B, C) is the
\* propertySet mergeProps(mergeProps(A, B), C), for contributors that are
\* propertySets or undefined
C21_MergeAssociative ==
    call.op = "mergeProps3" => SameMapping(call.result, call.sequenced)

\* three contributors with className and style each: the class of B
\* displaces that of A, the styles overlay key by key, and the one call and
\* the sequenced calls agree
C21_Witness ==
    /\ call.op = "mergeProps3"
    /\ call.A = Some(<<P("className", Cls(<<"p-4">>)),
                       P("style", Sty(<<"color", "red">>))>>)
    /\ call.B = Some(<<P("className", Cls(<<"base", "p-2">>)),
                       P("id", Str("a"))>>)
    /\ call.C = Some(<<P("style", Sty(<<"color", "blue", "margin", "5">>)),
                       P("id", Undefined)>>)
    /\ Get(call.result, "className") = Cls(<<"base", "p-2">>)
    /\ Get(call.result, "style") = Sty(<<"color", "blue", "margin", "5">>)
    /\ Get(call.result, "id") = Str("a")
    /\ call.sequenced = call.result


\* C22: with a configuration that has neither variants nor compoundVariants
\* (src/src generation) both resolution steps return the empty propertySet,
\* every incoming prop is a direct prop, and the forwarded props are the
\* merge of config.base with the incoming props alone: a key other than
\* className, style and ref given with a defined value has that value, a
\* key of the base that is not given keeps the value of the base
C22_NoVariantsPath ==
    (/\ Rendering
     /\ impl \in {"current", "earlier"}
     /\ config.variants = Absent
     /\ config.compoundVariants = Absent) =>
        /\ call.variantRes = <<>>
        /\ call.compoundRes = <<>>
        /\ call.direct = call.incoming
        /\ call.final = mergeFinalProps(config.base, <<>>, <<>>, call.incoming)
        /\ \A k \in KeySet(call.incoming) \ Reserved :
               Get(call.incoming, k) # Undefined =>
                   Get(call.final, k) = Get(call.incoming, k)
        /\ \A k \in KeySet(OrEmpty(config.base)) \ KeySet(call.incoming) :
               Get(call.final, k) = Get(OrEmpty(config.base), k)
        /\ KeySet(call.final) \subseteq
               KeySet(OrEmpty(config.base)) \cup KeySet(call.incoming)

\* the configuration has defaults but no variants: color, although it has
\* a default, is forwarded as a direct prop next to the merged class name
C22_Witness ==
    /\ Rendering
    /\ impl = "current"
    /\ config = DefaultsOnlyConfig
    /\ call.incoming = <<P("color", Str("teal")),
                         P("className", Cls(<<"extra">>))>>
    /\ call.active = <<P("color", Str("primary"))>>
    /\ call.variantRes = <<>>
    /\ Get(call.final, "color") = Str("teal")
    /\ Get(call.final, "className") = Cls(<<"base", "p-4", "extra">>)
    /\ Get(call.final, "id") = Str("base")


\* the object c has the same properties in the heaps a and b: its statics,
\* in the same order and with the same values, and its decoration mark
Untouched(a, b, c) ==
    /\ a[c].statics = b[c].statics
    /\ a[c].decorated = b[c].decorated
    /\ a[c].kind = b[c].kind
    /\ a[c].super = b[c].super

\* C23: useSlot(component, staticProps) never changes a component that was
\* already decorated: a call that is not the first one on its component
\* returns a new component and leaves the component as it was; so does a
\* call on a component that carries the decoration mark; the component is
\* changed only by the first call on it, which then returns the component
\* itself; and no other object that existed before the call is changed
C23_DecoratedNeverChanged ==
    call.op = "useSlot" =>
        LET c == call.component
            unchanged == Untouched(call.before, heap, c)
            fresh == call.result > Len(call.before)
        IN /\ call.nth > 1 => unchanged /\ fresh
           /\ call.before[c].decorated => unchanged /\ fresh
           /\ ~unchanged => call.nth = 1 /\ call.result = c
           /\ call.result = c \/ fresh
           /\ \A o \in 1..Len(call.before) :
                  o # c => Untouched(call.before, heap, o)

\* CardRoot was decorated with Icon by a first call, which returned it; the
\* second call on it, with another Icon, returns a new component and
\* CardRoot still has the Icon of the first call
C23_Witness ==
    /\ call.op = "useSlot"
    /\ call.component = CardRoot
    /\ call.nth = 2
    /\ call.staticProps = <<P("Icon", Label)>>
    /\ Static(call.before, CardRoot, "Icon") = Icon
    /\ call.before[CardRoot].decorated
    /\ call.result > Len(call.before)
    /\ Static(heap, CardRoot, "Icon") = Icon
    /\ Static(heap, call.result, "Icon") = Label


\* C24 as stated: the component useSlot returns carries every key of
\* staticProps with the given value and is marked as decorated, and a clone
\* also carries every static property of the component it was cloned from,
\* with the same value unless staticProps names the key
C24_ResultCarriesStatics ==
    call.op = "useSlot" =>
        LET c == call.component
            r == call.result
            given == call.staticProps
            previous == call.before[c].statics
        IN /\ \A i \in 1..Len(given) :
                  Static(heap, r, given[i].k) = given[i].val
           /\ heap[r].decorated
           /\ r # c =>
                  \A i \in 1..Len(previous) :
                      ~Has(given, previous[i].k) =>
                          Static(heap, r, previous[i].k) = previous[i].val


\* C24, amended: the component useSlot returns carries every key of
\* staticProps with the given value and is marked as decorated; a clone also
\* carries every static property of the component it was cloned from that
\* staticProps does not name: with the same value when the value is not an
\* object, and as a new object with the same own properties when it is
C24_ResultCarriesCopies ==
    call.op = "useSlot" =>
        LET c == call.component
            r == call.result
            given == call.staticProps
            previous == call.before[c].statics
        IN /\ \A i \in 1..Len(given) :
                  Static(heap, r, given[i].k) = given[i].val
           /\ heap[r].decorated
           /\ r # c =>
                  \A i \in 1..Len(previous) :
                      ~Has(given, previous[i].k) =>
                          LET was == previous[i].val
                              now == Static(heap, r, previous[i].k)
                          IN IF call.before[was].kind = "object"
                             THEN /\ now > Len(call.before)
                                  /\ heap[now].statics = call.before[was].statics
                                  /\ heap[now].decorated = call.before[was].decorated
                                  /\ heap[now].kind = "object"
                             ELSE now = was

\* CardRoot carries Icon, a function component, and Label, a forwardRef
\* component; its clone is given another Icon: it carries the new Icon and
\* a copy of Label, while CardRoot keeps the Label it was given
C24_Witness ==
    /\ call.op = "useSlot"
    /\ call.component = CardRoot
    /\ call.result # CardRoot
    /\ call.before[CardRoot].statics = <<P("Icon", Icon), P("Label", Label)>>
    /\ call.staticProps = <<P("Icon", Label)>>
    /\ Static(heap, call.result, "Icon") = Label
    /\ Static(heap, call.result, "Label") > Len(call.before)
    /\ Static(heap, CardRoot, "Label") = Label
    /\ heap[call.result].decorated


\* the static properties reached from target show the definition: a
\* function component under its slot name, and for a nested definition with
\* a function component as Root that Root, which in turn shows the rest of
\* the nested definition
RECURSIVE Exposes(_, _, _)
Exposes(h, target, entries) ==
    \A i \in 1..Len(entries) :
        LET name == entries[i].k
            given == entries[i].val
        IN name # "Root" =>
               IF isComponentType(h, given)
               THEN Static(h, target, name) = given.id
               ELSE IF given.t = "def" /\ hasComponentRoot(h, given)
               THEN /\ Static(h, target, name) = Get(given.entries, "Root").id
                    /\ Exposes(h, Get(given.entries, "Root").id, given.entries)
               ELSE TRUE

\* C25: the component useSlot(slots) returns exposes, at every path of slot
\* names of the definition, the component given there (the Root of a nested
\* definition for an inner node), and an entry that is neither a function
\* component nor a definition with such a Root leaves no property on it
C25_SlotsAttachedRecursively ==
    call.op = "useSlotDefinition" =>
        /\ Exposes(heap, call.result, call.slots)
        /\ \A i \in 1..Len(call.slots) :
               LET given == call.slots[i].val
               IN (/\ call.slots[i].k # "Root"
                   /\ ~isComponentType(heap, given)
                   /\ ~hasComponentRoot(heap, given)) =>
                      Static(heap, call.result, call.slots[i].k) = 0


\* every nested definition with a function component as Root has left its
\* attachable sub-slots as static properties of that Root itself
RECURSIVE SubSlotsOnRoots(_, _)
SubSlotsOnRoots(h, entries) ==
    \A i \in 1..Len(entries) :
        LET given == entries[i].val
        IN (/\ entries[i].k # "Root"
            /\ given.t = "def"
            /\ hasComponentRoot(h, given)) =>
               LET NestedRoot == Get(given.entries, "Root").id
               IN /\ \A j \in 1..Len(given.entries) :
                         LET sub == given.entries[j]
                         IN (/\ sub.k # "Root"
                             /\ \/ isComponentType(h, sub.val)
                                \/ hasComponentRoot(h, sub.val)) =>
                                Has(h[NestedRoot].statics, sub.k)
                  /\ SubSlotsOnRoots(h, given.entries)

\* C30: useSlot(slots) returns a new component and leaves the Root it is
\* given as it was; the sub-slots of a nested definition are static
\* properties of the nested Root itself after the call; and every
\* component keeps the static properties it had, so that a nested Root
\* gathers the sub-slots of the definitions it is used in
C30_TopRootUntouched ==
    call.op = "useSlotDefinition" =>
        LET Root == Get(call.slots, "Root").id
        IN /\ call.result > Len(call.before)
           /\ Untouched(call.before, heap, Root)
           /\ SubSlotsOnRoots(heap, call.slots)
           /\ \A o \in 1..Len(call.before) :
                  KeySet(call.before[o].statics) \subseteq KeySet(heap[o].statics)


\* C26: mergeFinalProps (src/src generation) forwards the ref of the direct
\* props as it is, whatever the other sources hold; when the direct props
\* give no ref, or a null one, the result has no ref, also when the base
\* carries one
C26_RefForwarded ==
    (Rendering /\ impl \in {"current", "earlier"}) =>
        LET ref == Get(call.direct, "ref")
        IN /\ call.final =
                  mergeFinalProps(config.base, call.variantRes,
                                  call.compoundRes, call.direct)
           /\ IF Truthy(ref)
              THEN Get(call.final, "ref") = ref
              ELSE ~Has(call.final, "ref")

\* the base carries a ref of its own and the matching rules add props: the
\* ref of the direct props is the one forwarded
C26_Witness ==
    /\ Rendering
    /\ impl = "current"
    /\ config.name = "Themed"
    /\ Get(OrEmpty(config.base), "ref") = Ref("baseRef")
    /\ call.incoming = <<P("ref", Ref("r1")), P("color", Str("primary"))>>
    /\ Get(call.direct, "ref") = Ref("r1")
    /\ call.compoundRes # <<>>
    /\ call.variantRes # <<>>
    /\ Get(call.final, "ref") = Ref("r1")


\* the keys of a sequence of propertySets
KeysOfAll(sets) == UNION {KeySet(sets[i]) : i \in 1..Len(sets)}

\* C27: the forwarded props invent no key (src/src generation): every key
\* of the final props is a key of config.base, of the propertySet of a
\* selected variant option, of the effect of a matching compound rule, or
\* of the incoming props; and every key of the active selection is a
\* category of config.variants given with a defined value, or a key of
\* config.defaultVariants
C27_NoInventedKey ==
    (Rendering /\ impl \in {"current", "earlier"}) =>
        /\ KeySet(call.final) \subseteq
               KeySet(OrEmpty(config.base))
               \cup KeysOfAll(SelectedOptions(config, call.active))
               \cup KeysOfAll(MatchingEffects(config, call.active))
               \cup KeySet(call.incoming)
        /\ \A k \in KeySet(call.active) :
               \/ /\ k \in variantKeysOf(config)
                  /\ Get(call.incoming, k) # Undefined
               \/ Has(OrEmpty(config.defaultVariants), k)

\* the final props hold a key from each origin: id from the base, role from
\* the selected options, lang from the matching rules and theme from the
\* incoming props; color is active by default and size by the instance
C27_Witness ==
    /\ Rendering
    /\ impl = "current"
    /\ config.name = "Button"
    /\ call.incoming = <<P("size", Str("lg")), P("theme", Str("light"))>>
    /\ KeySet(call.active) = {"color", "size"}
    /\ Get(call.final, "id") = Str("c1")
    /\ Has(call.final, "role")
    /\ Get(call.final, "lang") = Str("l2")
    /\ Get(call.final, "theme") = Str("light")
    /\ ~Has(call.final, "size")
    /\ ~Has(call.final, "title")


\* the compound result of the call in progress and the selection it was
\* resolved for: of a render, or of a direct call of the resolver
CompoundCall ==
    \/ Rendering /\ impl \in {"current", "earlier"}
    \/ call.op = "resolveCompoundVariantProps"

CompoundActive ==
    IF Rendering THEN call.active ELSE call.activeVariants

CompoundResult ==
    IF Rendering THEN call.compoundRes ELSE call.result

\* C28: a compound rule without conditions matches whatever the active
\* selection is: every key of its effect is in the compound result, with
\* the rule's value unless a later matching rule gives the key; and a rule
\* that carries conditions only contributes nothing: the result is the one
\* of the rule list without such rules and holds none of their keys
C28_EmptyConditionAlwaysMatches ==
    CompoundCall =>
        LET rules == OrEmpty(config.compoundVariants)
            withEffect == SelectSeq(rules, LAMBDA r : r.props # Absent)
        IN /\ \A i \in 1..Len(rules) :
                  (rules[i].cond = <<>> /\ rules[i].props # Absent) =>
                      \A e \in 1..Len(rules[i].props[1]) :
                          LET key == rules[i].props[1][e].k
                          IN /\ Has(CompoundResult, key)
                             /\ \/ Get(CompoundResult, key) =
                                       rules[i].props[1][e].val
                                \/ \E j \in (i + 1)..Len(rules) :
                                       /\ RuleMatches(rules[j], CompoundActive)
                                       /\ Get(CompoundResult, key) =
                                              Get(RuleEffect(rules[j]), key)
           /\ SameMapping(CompoundResult,
                          resolveCompoundVariantProps(
                              IF config.compoundVariants = Absent THEN Absent
                              ELSE Some(withEffect), CompoundActive))
           /\ KeySet(CompoundResult) \subseteq
                  KeysOfAll([i \in 1..Len(withEffect) |-> withEffect[i].props[1]])

\* the selection matches the rule on theme and the rule that has conditions
\* only: the result holds the effect of the rule without conditions and of
\* the rule on theme, and nothing of the third rule
C28_Witness ==
    /\ Rendering
    /\ impl = "current"
    /\ config.name = "Themed"
    /\ call.active = <<P("theme", Str("dark")), P("color", Str("primary"))>>
    /\ RuleMatches(config.compoundVariants[1][3], call.active)
    /\ config.compoundVariants[1][3].props = Absent
    /\ config.compoundVariants[1][1].cond = <<>>
    /\ Get(call.compoundRes, "lang") = Str("always")
    /\ KeySet(call.compoundRes) = {"lang", "className", "title"}


\* C29: a key that is no category of config.variants reaches the active
\* selection through config.defaultVariants only (src/src generation): an
\* incoming prop with such a key is a direct prop with the value given and
\* leaves the selection alone; a default for such a key is in the active
\* selection of every render with the default's value; the compound rules
\* are resolved against that selection, so a rule with a condition on such
\* a key matches only if the default has the required value
C29_DefaultOnlyConditions ==
    (Rendering /\ impl \in {"current", "earlier"}) =>
        LET defaults == OrEmpty(config.defaultVariants)
            rules == OrEmpty(config.compoundVariants)
        IN /\ \A k \in KeySet(call.incoming) \ variantKeysOf(config) :
                  /\ Has(call.direct, k)
                  /\ Get(call.direct, k) = Get(call.incoming, k)
           /\ \A k \in KeySet(call.active) \ variantKeysOf(config) :
                  /\ Has(defaults, k)
                  /\ Get(call.active, k) = Get(defaults, k)
           /\ \A k \in KeySet(defaults) \ variantKeysOf(config) :
                  /\ Has(call.active, k)
                  /\ Get(call.active, k) = Get(defaults, k)
           /\ ResolvesCompound(config.compoundVariants, call.active,
                               call.compoundRes)
           /\ \A i \in 1..Len(rules) :
                  \A c \in 1..Len(RuleCondition(rules[i])) :
                      LET cond == RuleCondition(rules[i])[c]
                      IN (/\ cond.k \notin variantKeysOf(config)
                          /\ RuleMatches(rules[i], call.active)) =>
                             Get(defaults, cond.k) = cond.val

\* theme has a default, dark, and is no category: the instance asks for
\* light, which is forwarded as a direct prop, while the rule on theme:
\* dark matches and contributes its title
C29_Witness ==
    /\ Rendering
    /\ impl = "current"
    /\ config.name = "Themed"
    /\ "theme" \notin variantKeysOf(config)
    /\ call.incoming = <<P("theme", Str("light")), P("color", Str("secondary"))>>
    /\ Get(call.direct, "theme") = Str("light")
    /\ call.active = <<P("theme", Str("dark")), P("color", Str("secondary"))>>
    /\ Get(call.compoundRes, "title") = Str("dark")
    /\ Get(call.final, "theme") = Str("light")
    /\ Get(call.final, "title") = Str("dark")

====
